---- MODULE Spec2Model ----
(***************************************************************************)
(* AR_Prediction: the autoregressive estimator (ARModel), the error        *)
(* metrics (computeErrors) and the order-selection pipeline of main().     *)
(*                                                                         *)
(* Numbers.  Every `double` of the program is a binary floating-point      *)
(* number m * 2^e with a significand of Prec bits (53 in the program), a   *)
(* bounded exponent (ulp exponent in -ExpMax..ExpMax), gradual underflow,  *)
(* overflow to +-infinity, NaN and round-to-nearest-even after every       *)
(* operation, as IEEE 754 prescribes.  A value is the pair <<m, e>>;       *)
(* finite values are kept in canonical form, so two finite values are      *)
(* equal exactly when their pairs are equal.  Zero carries no sign.        *)
(*                                                                         *)
(* Specifications.  Spec and SpecLong: one ARModel under any sequence of   *)
(* calls.  SpecErr: computeErrors called on any two sequences.  SpecDiff:  *)
(* main entered at its differencing loop with a training series of any     *)
(* length, and the integration loop run over the differences.  SpecMain:   *)
(* main from generateGBM to its return, on any price series.               *)
(***************************************************************************)
EXTENDS Integers, Sequences, FiniteSets, TLC

\* ---------------------------------------------------------------- bounds
\* width of the significand (the program's double has 53 bits)
Prec == 12
\* largest exponent of the unit in the last place (and, negated, the smallest)
ExpMax == 40

\* ------------------------------------------------- floating-point values
Pow2(k) == 2 ^ k

Abs(i) == IF i < 0 THEN -i ELSE i

Sgn(i) == IF i < 0 THEN -1 ELSE IF i > 0 THEN 1 ELSE 0

Max(i, j) == IF i < j THEN j ELSE i

Min(i, j) == IF i < j THEN i ELSE j

RECURSIVE BitLen(_)
BitLen(a) == IF a = 0 THEN 0 ELSE 1 + BitLen(a \div 2)

SpecialExp == ExpMax + 1

NaN == <<0, SpecialExp>>

PInf == <<1, SpecialExp>>

NInf == <<-1, SpecialExp>>

Zero == <<0, 0>>

IsSpecial(x) == x[2] = SpecialExp

IsNaN(x) == x = NaN

IsInf(x) == x = PInf \/ x = NInf

IsFinite(x) == ~IsSpecial(x)

Inf(s) == IF s < 0 THEN NInf ELSE PInf

\* the finite value m * 2^e, or the infinity it overflows to
Finite(m, e) ==
    IF m = 0 THEN Zero ELSE IF e > ExpMax THEN Inf(m) ELSE <<m, e>>

\* a rounded significand q that has reached 2^Prec moves into the next binade
Carry(s, q, e) ==
    IF q = Pow2(Prec) THEN Finite(s * (q \div 2), e + 1) ELSE Finite(s * q, e)

\* round to nearest, ties to even: q is the kept part, rem the part cut off,
\* half the weight of the first bit cut off
RndCut(s, q, rem, half, e, sticky) ==
    Carry(s, IF rem > half \/ (rem = half /\ (sticky \/ q % 2 = 1)) THEN q + 1 ELSE q, e)

\* m has bl bits, of which sh are cut off (sh <= 0: none, and m is shifted up
\* as far as the smallest exponent allows)
RndShift(m, e, sticky, bl, sh) ==
    IF sh <= 0
    THEN Finite(m * Pow2(Min(Prec - bl, e + ExpMax)), e - Min(Prec - bl, e + ExpMax))
    ELSE IF sh > bl THEN Zero
    ELSE RndCut(Sgn(m), Abs(m) \div Pow2(sh), Abs(m) % Pow2(sh), Pow2(sh - 1),
                e + sh, sticky)

RndBits(m, e, sticky, bl) ==
    RndShift(m, e, sticky, bl, Max(bl - Prec, (-ExpMax) - e))

\* The value m * 2^e (plus, when sticky, a non-zero tail below the last bit of
\* m) rounded to the nearest representable value, ties to even.
Rnd(m, e, sticky) ==
    IF m = 0 THEN Zero ELSE RndBits(m, e, sticky, BitLen(Abs(m)))

\* int -> double
FromInt(i) == Rnd(i, 0, FALSE)

Neg(x) == <<-x[1], x[2]>>

FAbs(x) == <<Abs(x[1]), x[2]>>

Mul(x, y) ==
    IF IsNaN(x) \/ IsNaN(y) THEN NaN
    ELSE IF IsSpecial(x) \/ IsSpecial(y)
         THEN IF x[1] = 0 \/ y[1] = 0 THEN NaN ELSE Inf(Sgn(x[1]) * Sgn(y[1]))
         ELSE Rnd(x[1] * y[1], x[2] + y[2], FALSE)

\* hi + lo, where the exponent of hi is not below that of lo: a term more than
\* Prec + 1 binary places below hi cannot change the rounded sum
AddAligned(hi, lo) ==
    IF hi[2] - lo[2] >= Prec + 2 THEN hi
    ELSE Rnd(hi[1] * Pow2(hi[2] - lo[2]) + lo[1], lo[2], FALSE)

Add(x, y) ==
    IF IsNaN(x) \/ IsNaN(y) THEN NaN
    ELSE IF IsSpecial(x) THEN (IF IsSpecial(y) /\ y # x THEN NaN ELSE x)
    ELSE IF IsSpecial(y) THEN y
    ELSE IF x[1] = 0 THEN y
    ELSE IF y[1] = 0 THEN x
    ELSE IF x[2] >= y[2] THEN AddAligned(x, y) ELSE AddAligned(y, x)

Sub(x, y) == Add(x, Neg(y))

\* a finite non-zero value with its significand shifted up to exactly Prec bits
Norm(x) ==
    <<x[1] * Pow2(Prec - BitLen(Abs(x[1]))), x[2] - (Prec - BitLen(Abs(x[1])))>>

\* the quotient of two normalised values, with sign s: Prec + 2 quotient bits
\* and the remainder as the sticky tail
DivNorm(s, nx, ny) ==
    Rnd(s * 2 * ((Abs(nx[1]) * Pow2(Prec + 2)) \div Abs(ny[1])),
        nx[2] - ny[2] - (Prec + 2) - 1,
        (Abs(nx[1]) * Pow2(Prec + 2)) % Abs(ny[1]) # 0)

Div(x, y) ==
    IF IsNaN(x) \/ IsNaN(y) THEN NaN
    ELSE IF IsSpecial(x)
         THEN (IF IsSpecial(y) THEN NaN
               ELSE Inf(x[1] * (IF y[1] < 0 THEN -1 ELSE 1)))
    ELSE IF IsSpecial(y) THEN Zero
    ELSE IF y[1] = 0 THEN (IF x[1] = 0 THEN NaN ELSE Inf(x[1]))
    ELSE IF x[1] = 0 THEN Zero
    ELSE DivNorm(Sgn(x[1]) * Sgn(y[1]), Norm(x), Norm(y))

\* x < y, x == y and x != y of the program: every comparison with NaN is
\* false, except != which is true
Lt(x, y) ==
    IF IsNaN(x) \/ IsNaN(y) \/ x = y THEN FALSE
    ELSE IF IsSpecial(x) THEN x = NInf
    ELSE IF IsSpecial(y) THEN y = PInf
    ELSE IF Sgn(x[1]) # Sgn(y[1]) THEN Sgn(x[1]) < Sgn(y[1])
    ELSE IF x[1] > 0
         THEN x[2] < y[2] \/ (x[2] = y[2] /\ x[1] < y[1])
         ELSE x[2] > y[2] \/ (x[2] = y[2] /\ x[1] < y[1])

Eq(x, y) == ~IsNaN(x) /\ ~IsNaN(y) /\ x = y

Ne(x, y) == ~Eq(x, y)

\* the largest s with s * s <= a, found bit by bit from bit b downwards
RECURSIVE ISqrt(_, _, _)
ISqrt(a, s, b) ==
    IF b < 0 THEN s
    ELSE ISqrt(a, IF (s + Pow2(b)) * (s + Pow2(b)) <= a THEN s + Pow2(b) ELSE s, b - 1)

\* the shift t0 or t0 + 1 that leaves an even exponent e - t
EvenShift(e, t0) == IF (e - t0) % 2 = 0 THEN t0 ELSE t0 + 1

\* the root s of the shifted significand a, its remainder as the sticky tail
SqrtRoot(a, s, e) == Rnd(2 * s, e, s * s # a)

SqrtShift(x, t) ==
    SqrtRoot(x[1] * Pow2(t), ISqrt(x[1] * Pow2(t), 0, Prec + 1), ((x[2] - t) \div 2) - 1)

\* std::sqrt
Sqrt(x) ==
    IF IsNaN(x) \/ x[1] < 0 THEN NaN
    ELSE IF x = PInf THEN PInf
    ELSE IF x[1] = 0 THEN Zero
    ELSE SqrtShift(x, EvenShift(x[2], 2 * Prec + 1 - BitLen(x[1])))

One == FromInt(1)

Hundred == FromInt(100)

\* ------------------------------------------------------------------ state
VARIABLES
    data_,             \* ARModel::data_ : the series given at construction
    order_,            \* ARModel::order_
    coefficients_,     \* ARModel::coefficients_
    autocorrelation_,  \* ARModel::autocorrelation_
    call,              \* the last call on the instance, its argument and what it returned
    errs,              \* the local vector e of the last computeCoefficients that ran the recursion
    ub,                \* an operation has read or erased outside a vector (undefined behaviour)
    emForecast,        \* the argument forecast of a call of computeErrors
    emActual,          \* the argument actual of that call
    em,                \* what the call returned
    pc,                \* the section of main that runs next
    fullPrices,        \* main: fullPrices
    trainPrices,       \* main: trainPrices
    validPrices,       \* main: validPrices
    diffData,          \* main: diffData
    rebuilt,           \* the levels integrated back from a prefix of diffData
    lastTrainPrice,    \* main: lastTrainPrice
    candidate,         \* main: the loop variable order of the sweep
    orders,            \* main: orders
    mses,              \* main: mses
    rmses,             \* main: rmses
    mapes,             \* main: mapes
    bestMse,           \* main: bestMse
    bestOrder,         \* main: bestOrder
    bestForecastedPrices, \* main: bestForecastedPrices
    bestForecastedDiff,   \* main: bestForecastedDiff
    forecastedPrices,  \* main: forecastedPrices of section 4
    oneStep,           \* main: oneStepDiff and oneStepPrice
    em_best,           \* main: em_best
    written,           \* the names of the files written so far, in order
    exitStatus         \* what main returned, once it has

estVars == <<data_, order_, coefficients_, autocorrelation_, call, errs>>

errVars == <<emForecast, emActual, em>>

splitVars == <<fullPrices, trainPrices, validPrices>>

sweepVars == <<lastTrainPrice, candidate, orders, mses, rmses, mapes, bestMse, bestOrder,
               bestForecastedPrices>>

outVars == <<bestForecastedDiff, forecastedPrices, oneStep, em_best>>

mainVars == <<pc, splitVars, diffData, rebuilt, sweepVars, outVars, written, exitStatus>>

vars == <<estVars, ub, errVars, mainVars>>

\* -------------------------------------------------------------- ARModel
\* data_.size() < static_cast<size_t>(order_): a negative order converts to a
\* size_t above every possible size
TooShort(data, order) == order < 0 \/ Len(data) < order

\* the inner loop of computeAutocorrelation: sum += data_[i] * data_[i - lag]
RECURSIVE AcSum(_, _, _, _)
AcSum(data, lag, i, sum) ==
    IF i >= Len(data) THEN sum
    ELSE AcSum(data, lag, i + 1, Add(sum, Mul(data[i + 1], data[i - lag + 1])))

\* autocorrelation_ after computeAutocorrelation, indexed by lag 0..order
computeAutocorrelation(data, order) ==
    [lag \in 0..order |-> Div(AcSum(data, lag, lag, Zero), FromInt(Len(data)))]

\* for (j = 1; j < k; ++j) lambda += a[j] * autocorrelation_[k - j]
RECURSIVE LambdaSum(_, _, _, _, _)
LambdaSum(a, r, k, j, lambda) ==
    IF j >= k THEN lambda
    ELSE LambdaSum(a, r, k, j + 1, Add(lambda, Mul(a[j], r[k - j])))

\* for (j = 1; j < k; ++j) a[j] -= lambda * a[k - j], on the one vector a
RECURSIVE UpdateA(_, _, _, _)
UpdateA(a, lambda, k, j) ==
    IF j >= k THEN a
    ELSE UpdateA([a EXCEPT ![j] = Sub(a[j], Mul(lambda, a[k - j]))], lambda, k, j + 1)

\* the body of the loop after lambda is computed: a[k] = lambda, the update
\* of a[1..k-1], and e[k] = e[k-1] * (1 - lambda * lambda)
StepWith(a, e, k, lambda) ==
    [a |-> UpdateA([a EXCEPT ![k] = lambda], lambda, k, 1),
     e |-> [e EXCEPT ![k] = Mul(e[k - 1], Sub(One, Mul(lambda, lambda)))]]

\* one pass of the Levinson-Durbin loop body, for index k
LevinsonStep(ae, r, k) ==
    StepWith(ae.a, ae.e, k,
             Div(Sub(r[k], LambdaSum(ae.a, r, k, 1, Zero)), ae.e[k - 1]))

\* the loop for (k = 1; k <= order_; ++k)
RECURSIVE Levinson(_, _, _, _)
Levinson(ae, r, k, order) ==
    IF k > order THEN ae
    ELSE Levinson(LevinsonStep(ae, r, k), r, k + 1, order)

\* a and e after the recursion, from a[0] = 1, e[0] = autocorrelation_[0]
LevinsonDurbin(r, order) ==
    Levinson([a |-> [j \in 0..order |-> IF j = 0 THEN One ELSE Zero],
              e |-> [j \in 0..order |-> IF j = 0 THEN r[0] ELSE Zero]],
             r, 1, order)

\* a vector indexed from 0, as the sequence of its entries
AsSeq(v, n) == [i \in 1..n |-> v[i - 1]]

\* return false before the recursion: the coefficients stay as they were
Refused(msg, coefs, autoc) ==
    [ret |-> FALSE, msg |-> msg, coefficients |-> coefs, autocorrelation |-> autoc,
     e |-> <<>>]

\* return true: coefficients_[i] = a[i + 1]
Succeeded(order, r, ae) ==
    [ret |-> TRUE, msg |-> "", coefficients |-> [i \in 1..order |-> ae.a[i]],
     autocorrelation |-> AsSeq(r, order + 1), e |-> AsSeq(ae.e, order + 1)]

\* computeCoefficients from the autocorrelation on, without its test of
\* autocorrelation_[0] against zero
AfterAutocorrelationNoZeroGuard(order, coefs, r) ==
    Succeeded(order, r, LevinsonDurbin(r, order))

\* the outcome f of a successful run with its coefficients added to the ones
\* stored before (coefficients_[i] += a[i + 1])
AddedTo(coefs, f) ==
    [f EXCEPT !.coefficients =
        [i \in 1..Len(@) |-> Add(IF i <= Len(coefs) THEN coefs[i] ELSE Zero, @[i])]]

\* computeCoefficients from the autocorrelation on, adding into coefficients_
AfterAutocorrelationAdding(order, coefs, r) ==
    IF Eq(r[0], Zero)
    THEN Refused("DegenerateAutocorrelation", coefs, AsSeq(r, order + 1))
    ELSE AddedTo(coefs, Succeeded(order, r, LevinsonDurbin(r, order)))

\* computeCoefficients from the autocorrelation on
AfterAutocorrelation(order, coefs, r) ==
    IF Eq(r[0], Zero)
    THEN Refused("DegenerateAutocorrelation", coefs, AsSeq(r, order + 1))
    ELSE Succeeded(order, r, LevinsonDurbin(r, order))

\* the length test made after the autocorrelation is computed and tested
LengthTestLast(data, order, coefs, r) ==
    IF Eq(r[0], Zero)
    THEN Refused("DegenerateAutocorrelation", coefs, AsSeq(r, Max(order, 0) + 1))
    ELSE IF TooShort(data, order)
    THEN Refused("InsufficientData", coefs, AsSeq(r, Max(order, 0) + 1))
    ELSE Succeeded(order, r, LevinsonDurbin(r, order))

\* computeCoefficients with the autocorrelation computed and tested before the
\* length of the series is
FitOutcomeAcFirst(data, order, coefs, autoc) ==
    LengthTestLast(data, order, coefs, computeAutocorrelation(data, Max(order, 0)))

\* what computeCoefficients returns and leaves in the fields and in e
FitOutcome(data, order, coefs, autoc) ==
    IF TooShort(data, order)
    THEN Refused("InsufficientData", coefs, autoc)
    ELSE AfterAutocorrelation(order, coefs, computeAutocorrelation(data, order))

\* the loop of forwardPredict pairing coefficients_[i] with the observation
\* order_ - i places from the end
RECURSIVE PredictSumOldestFirst(_, _, _, _, _)
PredictSumOldestFirst(coefs, data, order, i, prediction) ==
    IF i >= order THEN prediction
    ELSE PredictSumOldestFirst(coefs, data, order, i + 1,
             Add(prediction, Mul(coefs[i + 1], data[Len(data) - order + i + 1])))

\* prediction += coefficients_[i] * data_[data_.size() - 1 - i], i = 0..order_-1
RECURSIVE PredictSum(_, _, _, _, _)
PredictSum(coefs, data, order, i, prediction) ==
    IF i >= order THEN prediction
    ELSE PredictSum(coefs, data, order, i + 1,
                    Add(prediction, Mul(coefs[i + 1], data[Len(data) - i])))

\* what forwardPredict returns when it reads inside its vectors
forwardPredict(data, order, coefs) ==
    IF TooShort(data, order) THEN Zero
    ELSE PredictSum(coefs, data, order, 0, Zero)

\* the window sum pairing coefficients_[i] with window[i], oldest entry first
RECURSIVE WindowSumOldestFirst(_, _, _, _, _)
WindowSumOldestFirst(coefs, window, order, i, pred) ==
    IF i >= order THEN pred
    ELSE WindowSumOldestFirst(coefs, window, order, i + 1,
                              Add(pred, Mul(coefs[i + 1], window[i + 1])))

\* pred += coefficients_[i] * window[order_ - 1 - i], i = 0..order_-1
RECURSIVE WindowSum(_, _, _, _, _)
WindowSum(coefs, window, order, i, pred) ==
    IF i >= order THEN pred
    ELSE WindowSum(coefs, window, order, i + 1,
                   Add(pred, Mul(coefs[i + 1], window[order - i])))

RECURSIVE StepLoop(_, _, _, _, _, _)

\* the step loop without feedback: the window is left as it was
PushAndSlideNoFeedback(coefs, window, order, step, k, predictions, pred) ==
    StepLoop(coefs, window, order, step + 1, k, Append(predictions, pred))

\* the rest of a step once pred is computed: push it, erase the oldest window
\* entry, append pred to the window
PushAndSlide(coefs, window, order, step, k, predictions, pred) ==
    StepLoop(coefs, Append(Tail(window), pred), order, step + 1, k,
             Append(predictions, pred))

\* the loop for (step = 0; step < k; ++step)
StepLoop(coefs, window, order, step, k, predictions) ==
    IF step >= k THEN predictions
    ELSE PushAndSlide(coefs, window, order, step, k, predictions,
                      WindowSum(coefs, window, order, 0, Zero))

\* the local window of forwardPredictSteps as the step loop leaves it after
\* steps step..k-1: each step erases the first entry and appends its pred
RECURSIVE WindowLoop(_, _, _, _, _)
WindowLoop(coefs, window, order, step, k) ==
    IF step >= k THEN window
    ELSE WindowLoop(coefs, Append(Tail(window), WindowSum(coefs, window, order, 0, Zero)),
                    order, step + 1, k)

\* the window at the start of step s, from its construction out of the last
\* order_ entries of data_
WindowAtStep(data, order, coefs, s) ==
    WindowLoop(coefs, SubSeq(data, Len(data) - order + 1, Len(data)), order, 0, s)

\* forwardPredictSteps with its loop stopping one step early
forwardPredictStepsOneShort(data, order, coefs, k) ==
    IF TooShort(data, order) THEN <<>>
    ELSE StepLoop(coefs, SubSeq(data, Len(data) - order + 1, Len(data)), order, 0, k - 1,
                  <<>>)

\* what forwardPredictSteps(k) returns when it reads inside its vectors
forwardPredictSteps(data, order, coefs, k) ==
    IF TooShort(data, order) THEN <<>>
    ELSE StepLoop(coefs, SubSeq(data, Len(data) - order + 1, Len(data)), order, 0, k, <<>>)

\* the loops of forwardPredict and forwardPredictSteps index coefficients_ up
\* to order_-1: with fewer coefficients than that (no successful fit yet) the
\* read is outside the vector
ReadsOutside(data, order, coefs) == ~TooShort(data, order) /\ Len(coefs) < order

\* window.erase(window.begin()) on the empty window of an order-0 model
ErasesEmpty(data, order, k) == ~TooShort(data, order) /\ order = 0 /\ k > 0

\* ------------------------------------------------------------ main.cpp
\* ErrorMetrics em {0.0, 0.0, 0.0}
ZeroMetrics == [mse |-> Zero, rmse |-> Zero, mape |-> Zero]

\* diff * diff
Square(diff) == Mul(diff, diff)

\* the loop of computeErrors, its first statement: sumSq += diff * diff
RECURSIVE SumSq(_, _, _, _)
SumSq(forecast, actual, i, sumSq) ==
    IF i >= Len(forecast) THEN sumSq
    ELSE SumSq(forecast, actual, i + 1,
               Add(sumSq, Square(Sub(forecast[i + 1], actual[i + 1]))))

\* std::fabs(diff / actual[i]) * 100.0
PctTerm(diff, act) == Mul(FAbs(Div(diff, act)), Hundred)

\* the loop of computeErrors adding a term for every index, zero actual or not
RECURSIVE SumAbsPctNoSkip(_, _, _, _)
SumAbsPctNoSkip(forecast, actual, i, sumAbsPct) ==
    IF i >= Len(forecast) THEN sumAbsPct
    ELSE SumAbsPctNoSkip(forecast, actual, i + 1,
             Add(sumAbsPct, PctTerm(Sub(forecast[i + 1], actual[i + 1]), actual[i + 1])))

\* the loop of computeErrors, its second statement:
\* if (actual[i] != 0.0) sumAbsPct += std::fabs(diff / actual[i]) * 100.0
RECURSIVE SumAbsPct(_, _, _, _)
SumAbsPct(forecast, actual, i, sumAbsPct) ==
    IF i >= Len(forecast) THEN sumAbsPct
    ELSE SumAbsPct(forecast, actual, i + 1,
             IF Ne(actual[i + 1], Zero)
             THEN Add(sumAbsPct, PctTerm(Sub(forecast[i + 1], actual[i + 1]), actual[i + 1]))
             ELSE sumAbsPct)

\* em.mse = sumSq / n; em.rmse = std::sqrt(em.mse); em.mape = sumAbsPct / n
MetricsOf(mse, sumAbsPct, n) ==
    [mse |-> mse, rmse |-> Sqrt(mse), mape |-> Div(sumAbsPct, n)]

\* computeErrors past its guard
ErrorsOver(forecast, actual) ==
    MetricsOf(Div(SumSq(forecast, actual, 0, Zero), FromInt(Len(forecast))),
              SumAbsPct(forecast, actual, 0, Zero), FromInt(Len(forecast)))

\* computeErrors testing the sizes against each other only
computeErrorsNoEmptyTest(forecast, actual) ==
    IF Len(forecast) # Len(actual) THEN ZeroMetrics
    ELSE ErrorsOver(forecast, actual)

\* ErrorMetrics computeErrors(forecast, actual)
computeErrors(forecast, actual) ==
    IF Len(forecast) # Len(actual) \/ Len(forecast) = 0 THEN ZeroMetrics
    ELSE ErrorsOver(forecast, actual)

\* diffData after the differencing loop, for a series that is not empty:
\* diffData[i] = trainPrices[i + 1] - trainPrices[i], i = 0..size - 2
Difference(levels) ==
    [i \in 1..(Len(levels) - 1) |-> Sub(levels[i + 1], levels[i])]

\* the differencing loop's bound trainPrices.size() - 1 is unsigned: for an
\* empty series it is the largest size_t and the loop reads trainPrices[1]
\* and trainPrices[0], which do not exist
DifferenceReadsOutside(levels) == Len(levels) = 0

\* the integration loop with each level taken as base plus one difference
RECURSIVE IntegrateNoCarry(_, _, _, _, _)
IntegrateNoCarry(currentPrice, d, i, n, out) ==
    IF i >= n THEN out
    ELSE IntegrateNoCarry(currentPrice, d, i + 1, n, Append(out, Add(currentPrice, d[i + 1])))

\* the integration loop: currentPrice += d[i]; forecastedPrices[i] = currentPrice
RECURSIVE Integrate(_, _, _, _, _)
Integrate(currentPrice, d, i, n, out) ==
    IF i >= n THEN out
    ELSE Integrate(Add(currentPrice, d[i + 1]), d, i + 1, n,
                   Append(out, Add(currentPrice, d[i + 1])))

\* em.mse <= bestMse
ImprovesOrTies(mse, best) == Lt(mse, best) \/ Eq(mse, best)

\* em.mse < bestMse
Improves(mse, best) == Lt(mse, best)

\* std::numeric_limits<double>::infinity() for each of the three metrics
InfMetrics == [mse |-> PInf, rmse |-> PInf, mape |-> PInf]

\* ----------------------------------------------------------------- bounds
\* longest series and largest order of the estimator instances
MaxLen == 3
MaxOrder == 3
\* largest horizon asked of forwardPredictSteps
MaxSteps == 2
\* length and order of the long series of SpecLong
LongLen == 8
LongOrder == 6

\* the smallest positive value (the analogue of the double 4.9e-324)
Tiny == <<1, -ExpMax>>

Values == {Zero, One, Neg(One)}

\* samples whose squares underflow to zero
TinyValues == {Zero, Tiny}

SeriesOf(vals, n) == [1..n -> vals]

Series == UNION {SeriesOf(Values, n) \cup SeriesOf(TinyValues, n) : n \in 0..MaxLen}

\* longest argument of computeErrors
MaxErrLen == 2
\* longest training series given to the differencing loop on its own
MaxLevels == 3
\* main's totalDays and trainDays, and the first and last order of its sweep,
\* scaled down; the sweep reaches one order past the length of diffData
TotalDays == 6
TrainDays == 4
FirstOrder == 1
LastOrder == 4

\* int validDays = totalDays - trainDays
ValidDays == TotalDays - TrainDays

\* the largest finite value (the analogue of DBL_MAX)
Huge == <<Pow2(Prec) - 1, ExpMax>>

ErrValues == {Zero, One, FromInt(-3), Huge, Tiny}

ErrSeqs == UNION {SeriesOf(ErrValues, n) : n \in 0..MaxErrLen}

\* levels next to each other, levels far apart, and two levels of more bits
\* than a difference from 1 can hold
LevelValues ==
    {One, FromInt(3), FromInt(5), Rnd(Pow2(Prec) - 1, 0, FALSE), Rnd(Pow2(Prec) + 2, 0, FALSE)}

Levels == UNION {SeriesOf(LevelValues, n) : n \in 0..MaxLevels}

SmallPrices == {One, FromInt(2), FromInt(3)}

\* prices so large that the square of a difference of two of them overflows
BigPrice(i) == Rnd(i, ((Prec + ExpMax) \div 2) + 2, FALSE)

BigPrices == {BigPrice(1), BigPrice(2), BigPrice(3)}

\* what generateGBM may return: totalDays prices
PriceSeries == SeriesOf(SmallPrices, TotalDays) \cup SeriesOf(BigPrices, TotalDays)

\* what a read or erase outside a vector may leave as the call's result
Garbage == {<<>>, <<NaN>>}

NoCall == [op |-> "new", arg |-> 0, ok |-> FALSE, val |-> <<>>, msg |-> "",
           crashed |-> FALSE]

\* ---------------------------------------------------------------- actions
\* ARModel::ARModel(data, order)
Construct(series, ords) ==
    /\ data_ \in series
    /\ order_ \in ords
    /\ coefficients_ = <<>>
    /\ autocorrelation_ = <<>>
    /\ call = NoCall
    /\ errs = <<>>
    /\ ub = FALSE

\* no call of computeErrors of its own yet
ErrIdle == emForecast = <<>> /\ emActual = <<>> /\ em = <<>>

\* no instance of ARModel of its own
EstIdle ==
    /\ data_ = <<>> /\ order_ = 0 /\ coefficients_ = <<>> /\ autocorrelation_ = <<>>
    /\ call = NoCall /\ errs = <<>>

\* the locals of main before their declarations are reached
LocalsUnset ==
    /\ fullPrices = <<>> /\ validPrices = <<>> /\ diffData = <<>> /\ rebuilt = <<>>
    /\ lastTrainPrice = Zero /\ candidate = FirstOrder
    /\ orders = <<>> /\ mses = <<>> /\ rmses = <<>> /\ mapes = <<>>
    /\ bestMse = PInf /\ bestOrder = FirstOrder /\ bestForecastedPrices = <<>>
    /\ bestForecastedDiff = <<>> /\ forecastedPrices = <<>> /\ oneStep = <<>>
    /\ em_best = ZeroMetrics /\ written = <<>> /\ exitStatus = <<>>

\* main at section p with nothing declared yet
MainIdle(p) == pc = p /\ trainPrices = <<>> /\ LocalsUnset

\* an ARModel under direct calls
Init == Construct(Series, (-1)..MaxOrder) /\ ErrIdle /\ MainIdle("idle")

InitLong ==
    Construct(SeriesOf({One, Neg(One)}, LongLen), {LongOrder}) /\ ErrIdle /\ MainIdle("idle")

\* a value whose square is the smallest positive value or next to it (the
\* analogue of the double 2^-537)
SqrtTiny == Rnd(1, -(ExpMax \div 2), FALSE)

\* samples whose squares are at the bottom of the subnormal range
FaintValues == {Zero, SqrtTiny, Neg(SqrtTiny)}

\* an ARModel on a series of such samples, under direct calls
InitFaint ==
    /\ Construct(UNION {SeriesOf(FaintValues, n) : n \in 0..MaxLen}, (-1)..MaxOrder)
    /\ ErrIdle /\ MainIdle("idle")

\* computeErrors under a direct call
InitErr ==
    /\ EstIdle /\ ub = FALSE /\ MainIdle("idle")
    /\ emForecast \in ErrSeqs /\ emActual \in ErrSeqs /\ em = <<>>

\* main entered at its differencing loop with a training series of any length
InitDiff ==
    /\ EstIdle /\ ub = FALSE /\ ErrIdle
    /\ pc = "difference" /\ trainPrices \in Levels /\ LocalsUnset

\* int main()
InitMain == EstIdle /\ ub = FALSE /\ ErrIdle /\ MainIdle("generate")

\* the fields and the return value after computeCoefficients ended as f
Returned(f) ==
    /\ coefficients_' = f.coefficients
    /\ autocorrelation_' = f.autocorrelation
    /\ errs' = f.e
    /\ call' = [op |-> "computeCoefficients", arg |-> 0, ok |-> f.ret,
                val |-> <<>>, msg |-> f.msg, crashed |-> FALSE]

\* bool ARModel::computeCoefficients()
ComputeCoefficients ==
    /\ ~call.crashed
    /\ Returned(FitOutcome(data_, order_, coefficients_, autocorrelation_))
    /\ UNCHANGED <<data_, order_, ub, errVars, mainVars>>

\* double ARModel::forwardPredict() const
ForwardPredict ==
    /\ ~call.crashed
    /\ IF ReadsOutside(data_, order_, coefficients_)
       THEN /\ ub' = TRUE
            /\ \E g \in Garbage, c \in BOOLEAN :
                  call' = [op |-> "forwardPredict", arg |-> 0, ok |-> FALSE,
                           val |-> g, msg |-> "", crashed |-> c]
       ELSE /\ ub' = ub
            /\ call' = [op |-> "forwardPredict", arg |-> 0, ok |-> FALSE,
                        val |-> <<forwardPredict(data_, order_, coefficients_)>>,
                        msg |-> IF TooShort(data_, order_) THEN "InsufficientData" ELSE "",
                        crashed |-> FALSE]
    /\ UNCHANGED <<data_, order_, coefficients_, autocorrelation_, errs, errVars, mainVars>>

\* std::vector<double> ARModel::forwardPredictSteps(int k) const
ForwardPredictSteps(k) ==
    /\ ~call.crashed
    /\ IF k < 0
       THEN \* predictions.reserve(k) throws std::length_error, which nothing catches
            /\ ub' = ub
            /\ call' = [op |-> "forwardPredictSteps", arg |-> k, ok |-> FALSE,
                        val |-> <<>>, msg |-> "length_error", crashed |-> TRUE]
       ELSE IF k > 0 /\ (ReadsOutside(data_, order_, coefficients_)
                           \/ ErasesEmpty(data_, order_, k))
       THEN /\ ub' = TRUE
            /\ \E g \in Garbage, c \in BOOLEAN :
                  call' = [op |-> "forwardPredictSteps", arg |-> k, ok |-> FALSE,
                           val |-> g, msg |-> "", crashed |-> c]
       ELSE /\ ub' = ub
            /\ call' = [op |-> "forwardPredictSteps", arg |-> k, ok |-> FALSE,
                        val |-> forwardPredictSteps(data_, order_, coefficients_, k),
                        msg |-> IF TooShort(data_, order_) THEN "InsufficientData" ELSE "",
                        crashed |-> FALSE]
    /\ UNCHANGED <<data_, order_, coefficients_, autocorrelation_, errs, errVars, mainVars>>

Next ==
    \/ ComputeCoefficients
    \/ ForwardPredict
    \/ \E k \in (-1)..MaxSteps : ForwardPredictSteps(k)

Spec == Init /\ [][Next]_vars

SpecLong == InitLong /\ [][Next]_vars

SpecFaint == InitFaint /\ [][Next]_vars

\* ------------------------------------------------- computeErrors, called
ComputeErrors ==
    /\ em' = <<computeErrors(emForecast, emActual)>>
    /\ UNCHANGED <<estVars, ub, emForecast, emActual, mainVars>>

NextErr == ComputeErrors

SpecErr == InitErr /\ [][NextErr]_vars

\* ------------------------------------------------------------ int main()
\* what the differencing loop may leave in diffData after reading outside
\* trainPrices
GarbageDiffs == {<<>>, <<NaN>>}

\* section 1, the call of generateGBM: fullPrices, written to full_prices.txt
Generate ==
    /\ pc = "generate"
    /\ fullPrices' \in PriceSeries
    /\ written' = Append(written, "full_prices.txt")
    /\ pc' = "split"
    /\ UNCHANGED <<estVars, ub, errVars, trainPrices, validPrices, diffData, rebuilt,
                   sweepVars, outVars, exitStatus>>

\* section 1, the split into trainPrices and validPrices and their two files
Split ==
    /\ pc = "split"
    /\ trainPrices' = SubSeq(fullPrices, 1, TrainDays)
    /\ validPrices' = SubSeq(fullPrices, TrainDays + 1, Len(fullPrices))
    /\ written' = written \o <<"train_prices.txt", "actual_future_prices.txt">>
    /\ pc' = "difference"
    /\ UNCHANGED <<estVars, ub, errVars, fullPrices, diffData, rebuilt, sweepVars, outVars,
                   exitStatus>>

\* section 2: the differencing loop and log_returns.txt
DifferenceTrain ==
    /\ pc = "difference"
    /\ IF DifferenceReadsOutside(trainPrices)
       THEN /\ ub' = TRUE
            /\ \/ pc' = "crashed" /\ UNCHANGED <<diffData, written>>
               \/ /\ diffData' \in GarbageDiffs
                  /\ written' = Append(written, "log_returns.txt")
                  /\ pc' = "sweepInit"
       ELSE /\ ub' = ub
            /\ diffData' = Difference(trainPrices)
            /\ written' = Append(written, "log_returns.txt")
            /\ pc' = "sweepInit"
    /\ UNCHANGED <<estVars, errVars, splitVars, rebuilt, sweepVars, outVars, exitStatus>>

\* the integration loop run over the first k entries of diffData from the
\* first training price
Reintegrate(k) ==
    /\ pc = "sweepInit"
    /\ Len(trainPrices) >= 1 /\ k <= Len(diffData)
    /\ rebuilt' = Integrate(trainPrices[1], diffData, 0, k, <<>>)
    /\ UNCHANGED <<estVars, ub, errVars, pc, splitVars, diffData, sweepVars, outVars,
                   written, exitStatus>>

NextDiff ==
    \/ DifferenceTrain
    \/ \E k \in 0..MaxLevels : Reintegrate(k)

SpecDiff == InitDiff /\ [][NextDiff]_vars

\* section 3 up to the loop: the declarations, lastTrainPrice = trainPrices.back()
SweepInit ==
    /\ pc = "sweepInit"
    /\ orders' = <<>> /\ mses' = <<>> /\ rmses' = <<>> /\ mapes' = <<>>
    /\ bestMse' = PInf /\ bestOrder' = FirstOrder /\ bestForecastedPrices' = <<>>
    /\ candidate' = FirstOrder
    /\ IF Len(trainPrices) = 0
       THEN /\ ub' = TRUE
            /\ \/ pc' = "crashed" /\ lastTrainPrice' = lastTrainPrice
               \/ pc' = "sweep" /\ lastTrainPrice' \in {Zero, NaN}
       ELSE /\ ub' = ub
            /\ lastTrainPrice' = trainPrices[Len(trainPrices)]
            /\ pc' = "sweep"
    /\ UNCHANGED <<estVars, errVars, splitVars, diffData, rebuilt, outVars, written,
                   exitStatus>>

\* orders.push_back(order) and the three metrics pushed with it
Pushed(m) ==
    /\ orders' = Append(orders, FromInt(candidate))
    /\ mses' = Append(mses, m.mse)
    /\ rmses' = Append(rmses, m.rmse)
    /\ mapes' = Append(mapes, m.mape)

\* a candidate whose fit failed, dropped without a record
FailedOrderUnrecorded ==
    UNCHANGED <<orders, mses, rmses, mapes, bestMse, bestOrder, bestForecastedPrices>>

\* the body of if (!model.computeCoefficients()) up to its continue
FailedOrder ==
    /\ Pushed(InfMetrics)
    /\ UNCHANGED <<bestMse, bestOrder, bestForecastedPrices>>

\* the pushes of a fitted candidate and the update of the best MSE and order,
\* the best forecast left as it was
ScoredStaleForecast(fp, m) ==
    /\ Pushed(m)
    /\ bestForecastedPrices' = bestForecastedPrices
    /\ IF Improves(m.mse, bestMse)
       THEN bestMse' = m.mse /\ bestOrder' = candidate
       ELSE UNCHANGED <<bestMse, bestOrder>>

\* the pushes of a fitted candidate and if (em.mse < bestMse) { ... }
Scored(fp, m) ==
    /\ Pushed(m)
    /\ IF Improves(m.mse, bestMse)
       THEN bestMse' = m.mse /\ bestOrder' = candidate /\ bestForecastedPrices' = fp
       ELSE UNCHANGED <<bestMse, bestOrder, bestForecastedPrices>>

\* ErrorMetrics em = computeErrors(forecastedPrices, validPrices)
Forecasted(fp) == Scored(fp, computeErrors(fp, validPrices))

\* one pass of the loop body once computeCoefficients has ended as f
Tried(f) ==
    IF ~f.ret THEN FailedOrder
    ELSE Forecasted(Integrate(lastTrainPrice,
                              forwardPredictSteps(diffData, candidate, f.coefficients,
                                                  ValidDays),
                              0, ValidDays, <<>>))

\* section 3, one pass of for (int order = 20; order <= maxOrder; ++order)
SweepStep ==
    /\ pc = "sweep" /\ candidate <= LastOrder
    /\ Tried(FitOutcome(diffData, candidate, <<>>, <<>>))
    /\ candidate' = candidate + 1
    /\ UNCHANGED <<estVars, ub, errVars, pc, splitVars, diffData, rebuilt, lastTrainPrice,
                   outVars, written, exitStatus>>

\* section 3 after the loop: the four files of per-order metrics
SweepReport ==
    /\ pc = "sweep" /\ candidate > LastOrder
    /\ written' = written \o <<"ar_orders.txt", "ar_mses.txt", "ar_rmses.txt", "ar_mapes.txt">>
    /\ pc' = "refit"
    /\ UNCHANGED <<estVars, ub, errVars, splitVars, diffData, rebuilt, sweepVars, outVars,
                   exitStatus>>

\* section 4 past the fit: the forecast of the best order and its four files
Output(diffs, one) ==
    /\ bestForecastedDiff' = diffs
    /\ forecastedPrices' = Integrate(lastTrainPrice, diffs, 0, Len(diffs), <<>>)
    /\ oneStep' = <<one, Add(lastTrainPrice, one)>>
    /\ written' = written \o <<"forecasted_diff.txt", "forecasted_prices.txt",
                               "one_step_diff.txt", "one_step_price.txt">>
    /\ pc' = "indices"
    /\ exitStatus' = exitStatus

\* section 4 with the failed re-fit written out as an empty forecast and main
\* going on to its end
RefittedGoingOn(f) ==
    IF ~f.ret
    THEN Output(<<>>, Zero)
    ELSE Output(forwardPredictSteps(diffData, bestOrder, f.coefficients, ValidDays),
                forwardPredict(diffData, bestOrder, f.coefficients))

\* section 4 once bestModel.computeCoefficients() has ended as f
Refitted(f) ==
    IF ~f.ret
    THEN /\ exitStatus' = <<-1>>
         /\ pc' = "done"
         /\ UNCHANGED <<bestForecastedDiff, forecastedPrices, oneStep, written>>
    ELSE Output(forwardPredictSteps(diffData, bestOrder, f.coefficients, ValidDays),
                forwardPredict(diffData, bestOrder, f.coefficients))

\* section 4: ARModel bestModel(diffData, bestOrder) and what follows
Refit ==
    /\ pc = "refit"
    /\ Refitted(FitOutcome(diffData, bestOrder, <<>>, <<>>))
    /\ UNCHANGED <<estVars, ub, errVars, splitVars, diffData, rebuilt, sweepVars, em_best>>

\* section 5: the two files of time indices
TimeIndices ==
    /\ pc = "indices"
    /\ written' = written \o <<"train_time_indices.txt", "forecast_time_indices.txt">>
    /\ pc' = "validate"
    /\ UNCHANGED <<estVars, ub, errVars, splitVars, diffData, rebuilt, sweepVars, outVars,
                   exitStatus>>

\* sections 6 and 7: em_best, its three files, return 0
Validate ==
    /\ pc = "validate"
    /\ em_best' = computeErrors(forecastedPrices, validPrices)
    /\ written' = written \o <<"validation_mse.txt", "validation_rmse.txt",
                               "validation_mape.txt">>
    /\ exitStatus' = <<0>>
    /\ pc' = "done"
    /\ UNCHANGED <<estVars, ub, errVars, splitVars, diffData, rebuilt, sweepVars,
                   bestForecastedDiff, forecastedPrices, oneStep>>

NextMain ==
    \/ Generate
    \/ Split
    \/ DifferenceTrain
    \/ SweepInit
    \/ SweepStep
    \/ SweepReport
    \/ Refit
    \/ TimeIndices
    \/ Validate

SpecMain == InitMain /\ [][NextMain]_vars

\* ------------------------------------------------- claims on the estimator
Le(x, y) == Lt(x, y) \/ Eq(x, y)

FitCalled == call.op = "computeCoefficients"

InOrderRange == 1 <= order_ /\ order_ <= Len(data_)

HasNonZeroSample(data) == \E i \in 1..Len(data) : data[i] # Zero

HasUnitSample(data) == \E i \in 1..Len(data) : Le(One, FAbs(data[i]))

\* a successful computeCoefficients has filled coefficients_ with order_ entries
Fitted == InOrderRange /\ Len(coefficients_) = order_

\* C1 as stated: for 1 <= order <= len(S), computeCoefficients succeeds iff
\* the lag-0 autocorrelation is non-zero; an all-zero series fails and every
\* series with at least one non-zero sample succeeds.
C1_SuccessIffNonZeroSample ==
    (FitCalled /\ InOrderRange) =>
        /\ call.ok <=> Ne(autocorrelation_[1], Zero)
        /\ call.ok <=> HasNonZeroSample(data_)

\* C1 amended: for 1 <= order <= len(S), computeCoefficients succeeds iff the
\* lag-0 autocorrelation it computed is non-zero; an all-zero series fails,
\* and every series with a sample of magnitude at least 1 succeeds (a
\* non-zero sample whose square underflows to zero does not suffice).
C1_SuccessIffComputedAutocorrNonZero ==
    (FitCalled /\ InOrderRange) =>
        /\ call.ok <=> Ne(autocorrelation_[1], Zero)
        /\ ~HasNonZeroSample(data_) => ~call.ok
        /\ HasUnitSample(data_) => call.ok

\* C1 witness: a fit at order = len(S) fails on a series that has a non-zero
\* sample, and the same call has stored a zero lag-0 autocorrelation
C1_Witness ==
    /\ FitCalled /\ InOrderRange /\ order_ = Len(data_)
    /\ HasNonZeroSample(data_) /\ ~call.ok /\ autocorrelation_[1] = Zero

\* C2: when len(series) < order, computeCoefficients fails with
\* InsufficientData whatever the series holds, and leaves coefficients_ and
\* autocorrelation_ as they were, which is empty on such an instance.
C2_InsufficientDataFirst ==
    /\ [](Len(data_) < order_ => coefficients_ = <<>> /\ autocorrelation_ = <<>>)
    /\ [][(call'.op = "computeCoefficients" /\ Len(data_) < order_) =>
            /\ ~call'.ok
            /\ call'.msg = "InsufficientData"
            /\ coefficients_' = coefficients_
            /\ autocorrelation_' = autocorrelation_]_vars

\* C2 witness: computeCoefficients has refused a non-empty all-zero series
\* shorter than the order
C2_Witness ==
    /\ FitCalled /\ Len(data_) < order_ /\ Len(data_) >= 1
    /\ ~HasNonZeroSample(data_) /\ call.msg = "InsufficientData"

\* C3 as stated: in every successful fit the prediction errors do not
\* increase: e[k] <= e[k-1] for every k in 1..order.
C3_ErrorNonIncreasing ==
    (FitCalled /\ call.ok) =>
        \A k \in 1..order_ : Le(errs[k + 1], errs[k])

\* C4: on a fitted model, forwardPredict() and the first element of
\* forwardPredictSteps(k), k >= 1, called one after the other in either
\* order, return the same value.
C4_FirstStepIsOneStep ==
    [][/\ (Fitted /\ call.op = "forwardPredictSteps" /\ call.arg >= 1
              /\ call'.op = "forwardPredict")
          => call'.val = <<call.val[1]>>
       /\ (Fitted /\ call.op = "forwardPredict"
              /\ call'.op = "forwardPredictSteps" /\ call'.arg >= 1)
          => (Len(call'.val) = call'.arg /\ call'.val[1] = call.val[1])]_vars

\* C4 witness: forwardPredictSteps(k), k >= 2, has returned on a fitted model
\* of order >= 2 whose first prediction is not zero
C4_Witness ==
    /\ Fitted /\ order_ >= 2
    /\ call.op = "forwardPredictSteps" /\ call.arg >= 2
    /\ Len(call.val) = call.arg /\ call.val[1] # Zero

\* forwardPredictSteps(k), k >= 0, has returned on an instance of order >= 1
StepsCalled == call.op = "forwardPredictSteps" /\ call.arg >= 0 /\ order_ >= 1

\* C11 as stated: on an instance of order >= 1, forwardPredictSteps(k), k >= 0,
\* returns an empty sequence when len(series) < order and a sequence of
\* exactly k values otherwise.
C11_EmptyOrKValues ==
    StepsCalled =>
        /\ ~call.crashed
        /\ IF Len(data_) < order_ THEN call.val = <<>> ELSE Len(call.val) = call.arg

\* C11 amended: on an instance of order >= 1, forwardPredictSteps(k), k >= 0,
\* returns an empty sequence when len(series) < order, and returns exactly k
\* values once computeCoefficients has succeeded, and for k = 0 in every case.
C11_EmptyOrKValuesWhenFitted ==
    StepsCalled =>
        /\ Len(data_) < order_ => (call.val = <<>> /\ ~call.crashed)
        /\ Fitted => (Len(call.val) = call.arg /\ ~call.crashed)
        /\ call.arg = 0 => (call.val = <<>> /\ ~call.crashed)

\* C11 witness: a horizon k >= 1 was asked of an instance whose non-empty
\* series is shorter than its order, and nothing came back
C11_Witness ==
    /\ StepsCalled /\ call.arg >= 1
    /\ Len(data_) >= 1 /\ Len(data_) < order_
    /\ call.val = <<>> /\ call.msg = "InsufficientData"

\* computeCoefficients has returned success on this instance: only a run that
\* passed the length guard stores an autocorrelation, and it succeeds when
\* the lag-0 entry is not zero
HasSucceeded == autocorrelation_ # <<>> /\ Ne(autocorrelation_[1], Zero)

\* every computeCoefficients on this instance has failed and will fail
HasFailed ==
    \/ TooShort(data_, order_)
    \/ autocorrelation_ # <<>> /\ Eq(autocorrelation_[1], Zero)

\* C12: no call changes the series or the order; once computeCoefficients has
\* returned success the coefficient vector never changes and every later
\* computeCoefficients returns success; once it has returned failure there
\* are no coefficients and every later computeCoefficients returns failure;
\* the instance is never both.
C12_TerminalStates ==
    /\ []((FitCalled /\ call.ok) => HasSucceeded)
    /\ []((FitCalled /\ ~call.ok) => HasFailed)
    /\ [](~(HasSucceeded /\ HasFailed))
    /\ [][data_' = data_ /\ order_' = order_]_vars
    /\ [][HasSucceeded =>
            /\ HasSucceeded' /\ coefficients_' = coefficients_
            /\ call'.op = "computeCoefficients" => call'.ok]_vars
    /\ [][HasFailed =>
            /\ HasFailed' /\ coefficients_ = <<>> /\ coefficients_' = <<>>
            /\ call'.op = "computeCoefficients" => ~call'.ok]_vars

\* C12 witness: a forecast of two steps has returned after a successful fit
\* of order >= 2, the coefficients still in place and not all zero
C12_Witness ==
    /\ HasSucceeded /\ order_ >= 2 /\ Len(coefficients_) = order_
    /\ \E i \in 1..order_ : coefficients_[i] # Zero
    /\ call.op = "forwardPredictSteps" /\ Len(call.val) = 2 /\ ~call.crashed

\* forwardPredict has returned on a fitted model
OneCalled == Fitted /\ call.op = "forwardPredict"

\* the observation s steps before the prediction point, which follows the
\* last observation
StepsBack(s) == data_[Len(data_) + 1 - s]

\* the sum over i = 0..j-1 of coefficients[i] times the observation order - i
\* steps before the prediction point
RECURSIVE LagSumFar(_)
LagSumFar(j) ==
    IF j = 0 THEN Zero
    ELSE Add(LagSumFar(j - 1), Mul(coefficients_[j], StepsBack(order_ - (j - 1))))

\* the sum over i = 0..j-1 of coefficients[i] times the observation i + 1
\* steps before the prediction point
RECURSIVE LagSumNear(_)
LagSumNear(j) ==
    IF j = 0 THEN Zero
    ELSE Add(LagSumNear(j - 1), Mul(coefficients_[j], StepsBack(j)))

\* C13 as stated: the one-step prediction of a fitted model of order p is the
\* sum of coefficients[i] times the observation order - i steps before the
\* prediction point, i = 0..p-1.
C13_CoefficientTimesLagOrderMinusI ==
    OneCalled => call.val = <<LagSumFar(order_)>>

\* C13 amended: the one-step prediction of a fitted model of order p is the
\* sum of coefficients[i] times the observation i + 1 steps before the
\* prediction point, i = 0..p-1.
C13_CoefficientTimesLagIPlusOne ==
    OneCalled => call.val = <<LagSumNear(order_)>>

\* C13 witness: a one-step prediction of a model of order >= 2 for which the
\* two pairings give different sums
C13_Witness ==
    /\ OneCalled /\ order_ >= 2 /\ ~call.crashed
    /\ LagSumFar(order_) # LagSumNear(order_)
    /\ call.val[1] # Zero

\* the update of a[1..k-1] made from the copy old of a taken before it
RECURSIVE UpdateFromCopy(_, _, _, _, _)
UpdateFromCopy(a, old, lambda, k, j) ==
    IF j >= k THEN a
    ELSE UpdateFromCopy([a EXCEPT ![j] = Sub(old[j], Mul(lambda, old[k - j]))],
                        old, lambda, k, j + 1)

RefStepWith(a, e, k, lambda) ==
    [a |-> UpdateFromCopy([a EXCEPT ![k] = lambda], a, lambda, k, 1),
     e |-> [e EXCEPT ![k] = Mul(e[k - 1], Sub(One, Mul(lambda, lambda)))]]

RefStep(ae, r, k) ==
    RefStepWith(ae.a, ae.e, k, Div(Sub(r[k], LambdaSum(ae.a, r, k, 1, Zero)), ae.e[k - 1]))

RECURSIVE RefLevinson(_, _, _, _)
RefLevinson(ae, r, k, order) ==
    IF k > order THEN ae ELSE RefLevinson(RefStep(ae, r, k), r, k + 1, order)

\* the coefficients of the reference recursion on the autocorrelation r
RefCoefficients(r, order) ==
    [i \in 1..order |->
        RefLevinson([a |-> [j \in 0..order |-> IF j = 0 THEN One ELSE Zero],
                     e |-> [j \in 0..order |-> IF j = 0 THEN r[0] ELSE Zero]],
                    r, 1, order).a[i]]

\* C14 as stated: after a successful fit the coefficient vector is the one of
\* the reference recursion, whose step k updates a[1..k-1] from the values
\* they had before the step.
C14_SimultaneousUpdate ==
    (FitCalled /\ call.ok) =>
        coefficients_ =
            RefCoefficients([lag \in 0..order_ |-> autocorrelation_[lag + 1]], order_)

\* forwardPredictSteps(k) has returned k values on a fitted model
StepsReturned ==
    /\ Fitted /\ call.op = "forwardPredictSteps" /\ call.arg >= 0
    /\ ~call.crashed /\ Len(call.val) = call.arg

\* z at step s: the series followed by the first s predictions
Extended(s) == data_ \o SubSeq(call.val, 1, s)

\* the sum over i = 0..j-1 of coefficients[i] * z[n + s - 1 - i], z indexed
\* from 0
RECURSIVE FeedbackSum(_, _)
FeedbackSum(s, j) ==
    IF j = 0 THEN Zero
    ELSE Add(FeedbackSum(s, j - 1),
             Mul(coefficients_[j], Extended(s)[Len(data_) + s - (j - 1)]))

\* C15: output s of forwardPredictSteps(k) on a fitted model is the sum over i
\* of coefficients[i] * z[n+s-1-i], z being the series extended by the
\* outputs before s; at the start of step s the window holds the last order
\* entries of z, oldest first; from step order on it holds outputs only.
C15_RecursiveForecast ==
    StepsReturned =>
        \A s \in 0..(call.arg - 1) :
            /\ call.val[s + 1] = FeedbackSum(s, order_)
            /\ Len(WindowAtStep(data_, order_, coefficients_, s)) = order_
            /\ WindowAtStep(data_, order_, coefficients_, s)
                  = SubSeq(Extended(s), Len(data_) + s - order_ + 1, Len(data_) + s)
            /\ s >= order_ =>
                  WindowAtStep(data_, order_, coefficients_, s)
                      = SubSeq(call.val, s - order_ + 1, s)

\* C15 witness: the second output of a forecast on a model of order 1 is the
\* coefficient times the first output, and neither is zero
C15_Witness ==
    /\ StepsReturned /\ order_ = 1 /\ call.arg >= 2
    /\ call.val[1] # Zero /\ call.val[2] # call.val[1]
    /\ call.val[2] = Mul(coefficients_[1], call.val[1])

\* C16 as stated: in a computeCoefficients that passed both guards every
\* divisor e[k-1], k = 1..order, is non-zero.
C16_DivisorsNonZero ==
    (FitCalled /\ call.ok) => \A k \in 1..order_ : Ne(errs[k], Zero)

\* ------------------------------------------------- claims on the pipeline
\* the sweep's loop has ended
SweepOver == pc \in {"refit", "indices", "validate", "done"}

\* the number of candidate orders in the range
NumOrders == LastOrder - FirstOrder + 1

\* the candidate order at position i of the per-order sequences
OrderAt(i) == FirstOrder + i - 1

\* position i is the first whose MSE equals v
FirstAt(i, v) == Eq(mses[i], v) /\ \A j \in 1..(i - 1) : ~Eq(mses[j], v)

\* C5 as stated: after the sweep the tracked best MSE is the minimum MSE over
\* all candidate orders and the best order is the smallest order whose MSE
\* equals it.
C5_BestIsFirstMinimum ==
    SweepOver =>
        /\ \A j \in 1..Len(mses) : Le(bestMse, mses[j])
        /\ \E i \in 1..Len(mses) : FirstAt(i, bestMse) /\ bestOrder = OrderAt(i)

\* C5 amended: after the sweep the tracked best MSE is the minimum of
\* +infinity and the candidates' MSEs that are not NaN; when some candidate's
\* MSE is below +infinity the best order is the smallest order whose MSE
\* equals the best MSE, otherwise it is the first order of the range.
C5_BestIsFirstMinimumNotNaN ==
    SweepOver =>
        /\ \A j \in 1..Len(mses) : ~IsNaN(mses[j]) => Le(bestMse, mses[j])
        /\ IF \E j \in 1..Len(mses) : Lt(mses[j], PInf)
           THEN \E i \in 1..Len(mses) : FirstAt(i, bestMse) /\ bestOrder = OrderAt(i)
           ELSE bestMse = PInf /\ bestOrder = FirstOrder

\* C5 witness: the sweep has ended with two orders sharing the minimum MSE, a
\* finite one, a higher MSE scanned before them, and the lower of the two
\* selected
C5_Witness ==
    /\ SweepOver /\ IsFinite(bestMse)
    /\ \E i \in 2..Len(mses) : \E j \in (i + 1)..Len(mses) :
          /\ FirstAt(i, bestMse) /\ Eq(mses[j], bestMse)
          /\ bestOrder = OrderAt(i)

\* C6: an order whose fit fails gets +infinity for its three metrics, leaves
\* the best order, MSE and forecast as they were, and the loop goes on to the
\* next order; after the loop each per-order sequence has one entry per
\* candidate order, the orders ascending.
C6_FailedOrderRecordedAndSkipped ==
    /\ [](SweepOver =>
            /\ Len(orders) = NumOrders /\ Len(mses) = NumOrders
            /\ Len(rmses) = NumOrders /\ Len(mapes) = NumOrders
            /\ \A i \in 1..NumOrders : orders[i] = FromInt(OrderAt(i)))
    /\ [][(/\ pc = "sweep" /\ candidate <= LastOrder
           /\ ~FitOutcome(diffData, candidate, <<>>, <<>>).ret) =>
            /\ orders' = Append(orders, FromInt(candidate))
            /\ mses' = Append(mses, PInf)
            /\ rmses' = Append(rmses, PInf)
            /\ mapes' = Append(mapes, PInf)
            /\ UNCHANGED <<bestMse, bestOrder, bestForecastedPrices>>
            /\ pc' = "sweep" /\ candidate' = candidate + 1]_vars

\* C6 witness: the loop has ended, its last order failed for want of data
\* after an earlier order had set a finite best MSE and a best forecast
C6_Witness ==
    /\ pc = "sweep" /\ candidate = LastOrder + 1
    /\ Len(diffData) < LastOrder /\ mses[NumOrders] = PInf
    /\ IsFinite(bestMse) /\ Len(bestForecastedPrices) = ValidDays

\* some candidate order was fitted and scored a finite MSE
SomeFiniteMse == \E i \in 1..Len(mses) : IsFinite(mses[i])

\* C17: when some candidate has a finite MSE, the re-fit of the best order
\* succeeds, its integrated forecast is the best forecast stored during the
\* sweep, and the MSE recomputed for it is the tracked best MSE.
C17_RefitReproducesBest ==
    (SweepOver /\ SomeFiniteMse) =>
        /\ pc \in {"indices", "validate", "done"} =>
              forecastedPrices = bestForecastedPrices
        /\ pc = "done" => (exitStatus = <<0>> /\ em_best.mse = bestMse)

\* C17 witness: main has returned 0 after a sweep in which an order above the
\* first one scored the best MSE, a finite one above zero
C17_Witness ==
    /\ pc = "done" /\ exitStatus = <<0>> /\ SomeFiniteMse
    /\ bestOrder > FirstOrder /\ Lt(Zero, bestMse)
    /\ Len(forecastedPrices) = ValidDays /\ forecastedPrices = bestForecastedPrices

\* computeCoefficients fails for every candidate order of the range
AllFail ==
    \A p \in FirstOrder..LastOrder : ~FitOutcome(diffData, p, <<>>, <<>>).ret

\* the files written up to the end of the sweep
FilesOfSweep ==
    <<"full_prices.txt", "train_prices.txt", "actual_future_prices.txt", "log_returns.txt",
      "ar_orders.txt", "ar_mses.txt", "ar_rmses.txt", "ar_mapes.txt">>

\* C18: when every candidate order fails, after the sweep the best MSE is
\* +infinity, the best forecast is empty and the best order is the first of
\* the range; main returns -1 at the re-fit, with the per-order metric files
\* written and no forecast or validation file.
C18_AllFailExit ==
    /\ []((SweepOver /\ AllFail) =>
            /\ bestMse = PInf /\ bestForecastedPrices = <<>> /\ bestOrder = FirstOrder
            /\ pc \in {"refit", "done"} /\ written = FilesOfSweep
            /\ pc = "done" => exitStatus = <<-1>>)
    /\ [][(pc = "refit" /\ AllFail) =>
            (pc' = "done" /\ exitStatus' = <<-1>> /\ written' = written)]_vars

\* C18 witness: main has returned -1 on a training series of equal prices,
\* every order recorded with an infinite MSE
C18_Witness ==
    /\ pc = "done" /\ exitStatus = <<-1>>
    /\ Len(diffData) >= FirstOrder /\ \A i \in 1..Len(diffData) : diffData[i] = Zero
    /\ Len(mses) = NumOrders /\ \A i \in 1..NumOrders : mses[i] = PInf
    /\ written = FilesOfSweep

\* ------------------------------------- claims on differencing, integration
Two == FromInt(2)

\* x and y have the same sign and neither is more than twice the other
WithinFactorTwo(x, y) ==
    /\ (Lt(Zero, x) /\ Lt(Zero, y)) \/ (Lt(x, Zero) /\ Lt(y, Zero))
    /\ Le(FAbs(x), Mul(Two, FAbs(y)))
    /\ Le(FAbs(y), Mul(Two, FAbs(x)))

\* the differencing loop has run to its end on a series it could read
DifferencedInside == pc = "sweepInit" /\ ~ub /\ Len(trainPrices) >= 1

\* C7 as stated: integrating the first k differences from levels[0]
\* reproduces levels[1..k], for every level series and every k.
C7_RoundTrip ==
    DifferencedInside => rebuilt = SubSeq(trainPrices, 2, Len(rebuilt) + 1)

\* C7 amended: integrating the first k differences from levels[0] reproduces
\* levels[1..k] exactly when each of levels[0..k] has the sign of its successor
\* and neither of the two is more than twice the other.
C7_RoundTripOfCloseLevels ==
    (/\ DifferencedInside
     /\ \A i \in 1..Len(rebuilt) : WithinFactorTwo(trainPrices[i], trainPrices[i + 1]))
        => rebuilt = SubSeq(trainPrices, 2, Len(rebuilt) + 1)

\* C7 witness: two differences of opposite sign were integrated back over
\* levels within a factor two of each other
C7_Witness ==
    /\ DifferencedInside /\ Len(rebuilt) = 2
    /\ \A i \in 1..2 : WithinFactorTwo(trainPrices[i], trainPrices[i + 1])
    /\ Lt(trainPrices[1], trainPrices[2]) /\ Lt(trainPrices[3], trainPrices[2])
    /\ rebuilt = SubSeq(trainPrices, 2, 3)

\* C8 as stated: differencing a series of length n gives the n-1 differences
\* levels[i+1] - levels[i] when n >= 2, and fails or gives an empty series
\* when n < 2, and reads no element outside the series.
C8_DifferenceLengths ==
    (pc \in {"sweepInit", "crashed"}) =>
        /\ ~ub
        /\ Len(trainPrices) >= 2 =>
              /\ pc = "sweepInit" /\ Len(diffData) = Len(trainPrices) - 1
              /\ \A i \in 1..Len(diffData) :
                    diffData[i] = Sub(trainPrices[i + 1], trainPrices[i])
        /\ Len(trainPrices) < 2 => (pc = "crashed" \/ diffData = <<>>)

\* --------------------------------------------------- claims on computeErrors
ErrCalled == em # <<>>

EqualNonEmpty == Len(emForecast) = Len(emActual) /\ Len(emForecast) >= 1

\* the sum of the squared differences of entries 1..i
RECURSIVE SquaresUpTo(_)
SquaresUpTo(i) ==
    IF i = 0 THEN Zero
    ELSE Add(SquaresUpTo(i - 1),
             Mul(Sub(emForecast[i], emActual[i]), Sub(emForecast[i], emActual[i])))

\* C9: computeErrors returns a metrics record in every case; the record is
\* all zero when the lengths differ or both sequences are empty; for equal
\* non-zero lengths its MSE is the mean of the squared differences.
C9_ZeroRecordOrMeanOfSquares ==
    ErrCalled =>
        /\ DOMAIN em[1] = {"mse", "rmse", "mape"}
        /\ ~EqualNonEmpty => em[1] = [mse |-> Zero, rmse |-> Zero, mape |-> Zero]
        /\ EqualNonEmpty =>
              em[1].mse = Div(SquaresUpTo(Len(emForecast)), FromInt(Len(emForecast)))

\* C9 witness: computeErrors has returned the zero record for two non-empty
\* sequences of different lengths whose entries differ
C9_Witness ==
    /\ ErrCalled /\ Len(emForecast) >= 1 /\ Len(emActual) > Len(emForecast)
    /\ emForecast[1] # emActual[1] /\ em[1].mse = Zero /\ em[1].mape = Zero

\* the sum of |forecast - actual| / |actual| * 100 over the entries 1..i whose
\* actual value is not zero
RECURSIVE PctUpTo(_)
PctUpTo(i) ==
    IF i = 0 THEN Zero
    ELSE IF emActual[i] = Zero THEN PctUpTo(i - 1)
    ELSE Add(PctUpTo(i - 1),
             Mul(Div(FAbs(Sub(emForecast[i], emActual[i])), FAbs(emActual[i])), Hundred))

AllActualZero == \A i \in 1..Len(emActual) : emActual[i] = Zero

\* C10 as stated: for equal non-zero lengths MAPE is the sum, over the entries
\* with a non-zero actual value, of |forecast - actual| / |actual| * 100,
\* divided by the full count n; it is >= 0 and finite, and 0 when every actual
\* value is zero.
C10_MapeNonNegativeFinite ==
    (ErrCalled /\ EqualNonEmpty) =>
        /\ em[1].mape = Div(PctUpTo(Len(emForecast)), FromInt(Len(emForecast)))
        /\ Le(Zero, em[1].mape) /\ IsFinite(em[1].mape)
        /\ AllActualZero => em[1].mape = Zero

\* C10 amended: the same sum and count for finite inputs; MAPE is >= 0 or
\* +infinity and never NaN, and 0 when every actual value is zero.
C10_MapeNonNegativeNotNaN ==
    (ErrCalled /\ EqualNonEmpty) =>
        /\ em[1].mape = Div(PctUpTo(Len(emForecast)), FromInt(Len(emForecast)))
        /\ Le(Zero, em[1].mape) /\ ~IsNaN(em[1].mape)
        /\ AllActualZero => em[1].mape = Zero

\* C10 witness: a zero and a non-zero actual value, and a finite MAPE that is
\* half the one term
C10_Witness ==
    /\ ErrCalled /\ Len(emForecast) = 2 /\ Len(emActual) = 2
    /\ emActual[1] = Zero /\ emActual[2] = One /\ emForecast[2] = FromInt(-3)
    /\ em[1].mape = FromInt(200)

====
